---- MODULE Spec2Model ----
(***************************************************************************)
(* A model of js/profile-utils.js (the ProfileUtils module).               *)
(*                                                                         *)
(* JavaScript strings that are only compared and concatenated (URLs,       *)
(* paths) are TLA+ strings; strings that are split, trimmed and            *)
(* lower-cased (the interests field) are sequences of one-character        *)
(* strings.  Undefined, Null, Zero and False stand for the falsy values    *)
(* undefined, null, 0 and false.                                           *)
(***************************************************************************)
EXTENDS Integers, Sequences, FiniteSets, TLC

\* ---------------------------------------------------------------- bounds
MaxUrls == 3
MaxYears == 2
MaxChars == 5
MaxItems == 3
MaxElems == 2

\* ------------------------------------------------------------- constants
DEFAULT_IMG == "/staff/images/cta-default.jpg"

\* ------------------------------------------------------ JavaScript values
Undefined == "<undefined>"
Null == "<null>"
Zero == "<0>"
False == "<false>"

Falsy(v) == v \in {"", Undefined, Null, Zero, False}

\* `${v}` in a template literal
Str(v) == IF v = Undefined THEN "undefined"
          ELSE IF v = Null THEN "null"
          ELSE IF v = Zero THEN "0"
          ELSE IF v = False THEN "false"
          ELSE v

\* the value of a parameter declared with a default: only undefined takes it
DefaultParam(arg, d) == IF arg = Undefined THEN d ELSE arg

\* value of a variable of an operation that the behaviour does not run
Off == "off"

\* a && b
And_(a, b) == IF Falsy(a) THEN a ELSE b

\* a || b
Or(a, b) == IF Falsy(a) THEN b ELSE a

\* s[i] with a 0-based index; out of range reads undefined
JsAt(s, i) == IF i \in 0..(Len(s) - 1) THEN s[i + 1] ELSE Undefined

Range(s) == {s[k] : k \in 1..Len(s)}

SeqsUpTo(S, n) == UNION {[1..k -> S] : k \in 0..n}

VARIABLES
    \* firstReachableImage
    urls,       \* the argument
    pc,         \* "idle" before the call, "running" after
    index,      \* let index
    imgSrc,     \* img.src
    onload,     \* the url captured by img.onload, Undefined when unset
    onerror,    \* img.onerror: Undefined or "tryNext"
    inflight,   \* image requests of img that have not signalled yet
    promise,    \* the returned promise
    probed,     \* history: the indices assigned to img.src, in order
    signals     \* history: the load/error signals delivered, in order

VARIABLES
    \* imageCandidates
    slug, person, years, imgRoster, imgYears, defaultImg,   \* the arguments
    candidates, \* const candidates, as it is before the final filter
    icResult,   \* the returned array
    icPc        \* "idle" before the call, "done" after

VARIABLES
    \* parseInterests
    value,      \* the argument: [kind, str, arr]
    piResult,   \* the returned array
    piPc        \* "idle" before the call, "done" after

VARIABLES
    \* fetchYAML
    path,       \* the argument
    fyPc,       \* "idle", "awaitFetch", "awaitText", "done"
    fyPromise,  \* the promise of the async function
    fyResponse, \* const response, NoResponse until fetch resolves
    fyText,     \* const text, Undefined until read
    fyLog,      \* the console.error calls made
    fyFailure   \* history: what failed, "none" while nothing has

VARIABLES
    \* loadPartial
    url,        \* the argument
    dom,        \* the elements of the document, in document order; match
                \* tells whether the element matches the selector argument
    dom0,       \* history: the document at the call
    lpPc,       \* "idle", "awaitFetch", "awaitText", "done"
    lpPromise,  \* the promise of the async function
    lpHtml,     \* const html, Undefined until read
    lpLog,      \* the console.error calls made
    lpFailure   \* history: what failed, "none" while nothing has

VARIABLES
    \* renderContactInfo, syncStrapHeight, showProfileNotFound
    rcPerson,    \* the person argument of renderContactInfo
    listElement, \* the listElement argument of renderContactInfo
    topBar,      \* the element '.page-strap .top-bar'
    strapBg,     \* the element '.page-strap .strap-bg'
    container,   \* the element '.container'
    thrown       \* the exception that reached the caller, Undefined if none

probeVars == <<urls, pc, index, imgSrc, onload, onerror, inflight, promise,
               probed, signals>>

candVars == <<slug, person, years, imgRoster, imgYears, defaultImg,
              candidates, icResult, icPc>>

interestVars == <<value, piResult, piPc>>

fetchVars == <<path, fyPc, fyPromise, fyResponse, fyText, fyLog, fyFailure>>

partialVars == <<url, dom, dom0, lpPc, lpPromise, lpHtml, lpLog, lpFailure>>

renderVars == <<rcPerson, listElement, topBar, strapBg, container, thrown>>

vars == <<probeVars, candVars, interestVars, fetchVars, partialVars, renderVars>>

ProbeOff ==
    /\ urls = Off /\ pc = Off /\ index = Off /\ imgSrc = Off /\ onload = Off
    /\ onerror = Off /\ inflight = Off /\ promise = Off /\ probed = Off
    /\ signals = Off

CandOff ==
    /\ slug = Off /\ person = Off /\ years = Off /\ imgRoster = Off
    /\ imgYears = Off /\ defaultImg = Off /\ candidates = Off
    /\ icResult = Off /\ icPc = Off

InterestOff == value = Off /\ piResult = Off /\ piPc = Off

FetchOff ==
    /\ path = Off /\ fyPc = Off /\ fyPromise = Off /\ fyResponse = Off
    /\ fyText = Off
    /\ fyLog = Off /\ fyFailure = Off

RenderOff ==
    /\ rcPerson = Off /\ listElement = Off /\ topBar = Off /\ strapBg = Off
    /\ container = Off /\ thrown = Off

PartialOff ==
    /\ url = Off /\ dom = Off /\ dom0 = Off /\ lpPc = Off /\ lpPromise = Off
    /\ lpHtml = Off /\ lpLog = Off /\ lpFailure = Off

\* ===================================================== firstReachableImage
UrlPool == {"a.jpg", "b.png", DEFAULT_IMG, ""}

PendingPromise == [state |-> "pending", value |-> Undefined]

\* resolve(v): settles a pending promise, has no effect on a settled one
Resolve(p, v) ==
    IF p.state = "pending" THEN [state |-> "fulfilled", value |-> v] ELSE p

\* img.src = url on the single image handle: the handle carries one request
ImgSetSrc(fl, i) == {i}

\* tryNext with onload reading urls[index] when it fires (after index++)
TryNext_StaleUrl(fl) ==
    IF index >= Len(urls)
    THEN /\ promise' = Resolve(promise, Or(JsAt(urls, Len(urls) - 1), DEFAULT_IMG))
         /\ inflight' = fl
         /\ UNCHANGED <<index, onload, onerror, imgSrc, probed>>
    ELSE /\ index' = index + 1
         /\ onload' = JsAt(urls, index + 1)
         /\ onerror' = "tryNext"
         /\ imgSrc' = JsAt(urls, index)
         /\ inflight' = ImgSetSrc(fl, index)
         /\ probed' = Append(probed, index)
         /\ UNCHANGED promise

\* tryNext falling back to urls[urls.length]
TryNext_OffByOne(fl) ==
    IF index >= Len(urls)
    THEN /\ promise' = Resolve(promise, Or(JsAt(urls, Len(urls)), DEFAULT_IMG))
         /\ inflight' = fl
         /\ UNCHANGED <<index, onload, onerror, imgSrc, probed>>
    ELSE /\ index' = index + 1
         /\ onload' = JsAt(urls, index)
         /\ onerror' = "tryNext"
         /\ imgSrc' = JsAt(urls, index)
         /\ inflight' = ImgSetSrc(fl, index)
         /\ probed' = Append(probed, index)
         /\ UNCHANGED promise

\* tryNext without the return in front of resolve(...)
TryNext_NoReturn(fl) ==
    /\ promise' = IF index >= Len(urls)
                  THEN Resolve(promise, Or(JsAt(urls, Len(urls) - 1), DEFAULT_IMG))
                  ELSE promise
    /\ index' = index + 1
    /\ onload' = JsAt(urls, index)
    /\ onerror' = "tryNext"
    /\ imgSrc' = JsAt(urls, index)
    /\ inflight' = ImgSetSrc(fl, index)
    /\ probed' = Append(probed, index)

\* tryNext reading urls[index] without the increment
TryNext_NoIncrement(fl) ==
    IF index >= Len(urls)
    THEN /\ promise' = Resolve(promise, Or(JsAt(urls, Len(urls) - 1), DEFAULT_IMG))
         /\ inflight' = fl
         /\ UNCHANGED <<index, onload, onerror, imgSrc, probed>>
    ELSE /\ index' = index
         /\ onload' = JsAt(urls, index)
         /\ onerror' = "tryNext"
         /\ imgSrc' = JsAt(urls, index)
         /\ inflight' = ImgSetSrc(fl, index)
         /\ probed' = Append(probed, index)
         /\ UNCHANGED promise

\* tryNext, entered with fl the requests still in flight
TryNext(fl) ==
    IF index >= Len(urls)
    THEN /\ promise' = Resolve(promise, Or(JsAt(urls, Len(urls) - 1), DEFAULT_IMG))
         /\ inflight' = fl
         /\ UNCHANGED <<index, onload, onerror, imgSrc, probed>>
    ELSE /\ index' = index + 1
         /\ onload' = JsAt(urls, index)
         /\ onerror' = "tryNext"
         /\ imgSrc' = JsAt(urls, index)
         /\ inflight' = ImgSetSrc(fl, index)
         /\ probed' = Append(probed, index)
         /\ UNCHANGED promise

InitProbe ==
    /\ urls \in SeqsUpTo(UrlPool, MaxUrls)
    /\ pc = "idle"
    /\ index = 0
    /\ imgSrc = Undefined
    /\ onload = Undefined
    /\ onerror = Undefined
    /\ inflight = {}
    /\ promise = PendingPromise
    /\ probed = <<>>
    /\ signals = <<>>
    /\ CandOff /\ InterestOff /\ FetchOff /\ PartialOff /\ RenderOff

\* the promise executor: index = 0, new Image(), tryNext()
FirstReachableImage ==
    /\ pc = "idle"
    /\ pc' = "running"
    /\ TryNext({})
    /\ UNCHANGED <<urls, signals, candVars, interestVars, fetchVars, partialVars,
                   renderVars>>

\* the browser fires load on img: runs () => resolve(url).
\* An empty src never loads (the browser fires error for it).
ImgLoad ==
    /\ pc = "running"
    /\ imgSrc # ""
    /\ \E r \in inflight :
          /\ signals' = Append(signals, [idx |-> r, kind |-> "load"])
          /\ inflight' = inflight \ {r}
          /\ promise' = Resolve(promise, onload)
    /\ UNCHANGED <<urls, pc, index, imgSrc, onload, onerror, probed, candVars,
                   interestVars, fetchVars, partialVars,
                   renderVars>>

\* the browser fires error on img: runs tryNext
ImgError ==
    /\ pc = "running"
    /\ onerror = "tryNext"
    /\ \E r \in inflight :
          /\ signals' = Append(signals, [idx |-> r, kind |-> "error"])
          /\ TryNext(inflight \ {r})
    /\ UNCHANGED <<urls, pc, candVars, interestVars, fetchVars, partialVars,
                   renderVars>>

NextProbe == FirstReachableImage \/ ImgLoad \/ ImgError

SpecProbe == InitProbe /\ [][NextProbe]_vars

\* every started probe eventually signals
FairSpecProbe ==
    SpecProbe /\ WF_vars(FirstReachableImage) /\ WF_vars(ImgLoad \/ ImgError)

LoadSignals == {k \in 1..Len(signals) : signals[k].kind = "load"}

AllFailed ==
    /\ pc = "running"
    /\ Len(signals) = Len(urls)
    /\ LoadSignals = {}

\* C1: candidates are probed strictly in list order; when candidate k is the
\* first to load the promise is fulfilled with exactly urls[k], every
\* candidate before k was probed and failed, and nothing after k is probed.
C1_FirstLoadWins ==
    /\ probed = [k \in 1..Len(probed) |-> k - 1]
    /\ \A k \in 1..Len(signals) : signals[k].idx = k - 1
    /\ \A k \in LoadSignals :
          /\ promise = [state |-> "fulfilled", value |-> urls[k]]
          /\ \A j \in 1..(k - 1) : signals[j].kind = "error"
          /\ Len(probed) = k
          /\ inflight = {}

C1_Witness ==
    \E k \in LoadSignals : k >= 2 /\ k < Len(urls) /\ promise.value = urls[k]

\* C2 (as stated): when every candidate of a non-empty list has failed, the
\* promise is fulfilled with the last element of the list.
C2_Original ==
    (AllFailed /\ Len(urls) > 0) =>
        promise = [state |-> "fulfilled", value |-> urls[Len(urls)]]

\* C2 (amended): when every candidate of a non-empty list has failed, the
\* promise is fulfilled (never rejected) with the last element of the list,
\* or with DEFAULT_IMG when that last element is falsy (empty or null).
C2_ExhaustedLast ==
    /\ promise.state \in {"pending", "fulfilled"}
    /\ (AllFailed /\ Len(urls) > 0) =>
          promise = [state |-> "fulfilled",
                     value |-> IF Falsy(urls[Len(urls)]) THEN DEFAULT_IMG
                               ELSE urls[Len(urls)]]

C2_Witness ==
    /\ AllFailed
    /\ Len(urls) >= 2
    /\ promise = [state |-> "fulfilled", value |-> urls[Len(urls)]]
    /\ urls[Len(urls)] # urls[1]

\* C3 (as stated): the fulfilled value is an element of the input list, and
\* it is DEFAULT_IMG (not being an element) only when the list is empty.
C3_Original ==
    promise.state = "fulfilled" =>
        IF urls = <<>> THEN promise.value = DEFAULT_IMG
        ELSE promise.value \in Range(urls)

\* C3 (amended): the fulfilled value is an element of the input list, or it
\* is DEFAULT_IMG when the list is empty or when every candidate failed and
\* the last element is falsy (empty or null).
C3_ElementOrDefault ==
    promise.state = "fulfilled" =>
        \/ promise.value \in Range(urls)
        \/ /\ promise.value = DEFAULT_IMG
           /\ \/ urls = <<>>
              \/ AllFailed /\ Falsy(urls[Len(urls)])

C3_Witness ==
    /\ promise = [state |-> "fulfilled", value |-> DEFAULT_IMG]
    /\ DEFAULT_IMG \notin Range(urls)
    /\ Len(urls) >= 2
    /\ urls[1] # ""

\* C9: at most one candidate is in flight at any moment; every signal
\* belongs to the candidate currently probed and each candidate signals at
\* most once; a signal advances the index by at most one; once the promise
\* is fulfilled nothing is in flight and neither its value nor the index
\* changes again.
C9_NoStaleSignal ==
    /\ [](Cardinality(inflight) <= 1)
    /\ [](promise.state = "fulfilled" => inflight = {})
    /\ [](\A j, k \in 1..Len(signals) : signals[j].idx = signals[k].idx => j = k)
    /\ [][signals' # signals =>
            /\ Len(signals') = Len(signals) + 1
            /\ signals'[Len(signals')].idx = index - 1
            /\ index' \in {index, index + 1}]_vars
    /\ [][promise.state = "fulfilled" =>
            promise' = promise /\ index' = index]_vars

C9_Witness ==
    /\ Len(signals) >= 2
    /\ signals[1].kind = "error"
    /\ index = Len(signals)
    /\ promise.state = "fulfilled"
    /\ inflight = {}

\* C10: when every started probe eventually signals, the promise is
\* eventually fulfilled; the index never decreases, each candidate is probed
\* at most once and there is at most one probe per list element.
C10_Terminates ==
    /\ <>(promise.state = "fulfilled")
    /\ [][index' >= index]_vars
    /\ [](Len(probed) <= Len(urls))
    /\ [](\A j, k \in 1..Len(probed) : probed[j] = probed[k] => j = k)

C10_Witness ==
    /\ AllFailed
    /\ Len(urls) >= 2
    /\ Len(probed) = Len(urls)
    /\ promise.state = "fulfilled"

\* ========================================================= imageCandidates
exts == <<".jpg", ".png", ".jpeg">>

\* Array.prototype.filter(Boolean)
FilterBoolean(s) == SelectSeq(s, LAMBDA v : ~Falsy(v))

\* Array.from(new Set(s)): insertion order, first occurrence kept
RECURSIVE SetOrder(_, _)
SetOrder(s, seen) ==
    IF s = <<>> THEN <<>>
    ELSE IF Head(s) \in seen THEN SetOrder(Tail(s), seen)
    ELSE <<Head(s)>> \o SetOrder(Tail(s), seen \cup {Head(s)})

ArrayFromSet_NoDedup(s) == s

ArrayFromSet(s) == SetOrder(s, {})

\* for (const year of years) for (const ext of exts) push(...)
RECURSIVE YearLoop(_, _, _)
YearLoop(ys, sl, base) ==
    IF ys = <<>> THEN <<>>
    ELSE [e \in 1..Len(exts) |->
             Str(base) \o "/" \o Str(Head(ys)) \o "/" \o Str(sl) \o exts[e]]
         \o YearLoop(Tail(ys), sl, base)

\* the array built by steps 1) to 4)
Candidates(sl, pers, ys, roster, yearsBase, dflt) ==
    LET explicit == IF pers.exists /\ ~Falsy(pers.photo)
                    THEN <<pers.photo>> ELSE <<>>
        canonical == [e \in 1..Len(exts) |->
                         Str(roster) \o "/" \o Str(sl) \o exts[e]]
        byYear == IF ~Falsy(yearsBase) /\ Len(ys) > 0
                  THEN YearLoop(ys, sl, yearsBase) ELSE <<>>
    IN  explicit \o canonical \o byYear \o <<DefaultParam(dflt, DEFAULT_IMG)>>

ImageCandidates(sl, pers, ys, roster, yearsBase, dflt) ==
    ArrayFromSet(FilterBoolean(Candidates(sl, pers, ys, roster, yearsBase, dflt)))

SlugPool == {"a", "b"}
PhotoPool == {Undefined, "", "img/a.jpg", "p.jpg"}
PersonPool == {[exists |-> FALSE, photo |-> Undefined]}
                  \cup {[exists |-> TRUE, photo |-> ph] : ph \in PhotoPool}
YearPool == {"2020", "2021"}
RosterPool == {"img", "y/2020"}
YearsBasePool == {Null, "", "y"}
FallbackPool == {Undefined, Null, "", "img/a.jpg", "y/2020/a.png", "d.jpg"}

InitCand ==
    /\ slug \in SlugPool
    /\ person \in PersonPool
    /\ years \in SeqsUpTo(YearPool, MaxYears)
    /\ imgRoster \in RosterPool
    /\ imgYears \in YearsBasePool
    /\ defaultImg \in FallbackPool
    /\ candidates = <<>>
    /\ icResult = <<>>
    /\ icPc = "idle"
    /\ ProbeOff /\ InterestOff /\ FetchOff /\ PartialOff /\ RenderOff

ImageCandidatesCall ==
    /\ icPc = "idle"
    /\ icPc' = "done"
    /\ candidates' = Candidates(slug, person, years, imgRoster, imgYears, defaultImg)
    /\ icResult' = ImageCandidates(slug, person, years, imgRoster, imgYears, defaultImg)
    /\ UNCHANGED <<slug, person, years, imgRoster, imgYears, defaultImg,
                   probeVars, interestVars, fetchVars, partialVars,
                   renderVars>>

NextCand == ImageCandidatesCall

SpecCand == InitCand /\ [][NextCand]_vars

NoDup(s) == \A i, j \in 1..Len(s) : s[i] = s[j] => i = j

FirstIdx(s, x) == CHOOSE i \in 1..Len(s) : s[i] = x /\ \A j \in 1..(i - 1) : s[j] # x

\* the fallback path of the call: the argument, or the constant when omitted
Fallback == DefaultParam(defaultImg, DEFAULT_IMG)

\* the candidates generated before the fallback
Earlier == SubSeq(candidates, 1, Len(candidates) - 1)

\* the fallback is in the list: last, or where the equal earlier candidate is
FallbackPlaced ==
    /\ Fallback \in Range(icResult)
    /\ IF Fallback \in Range(Earlier)
       THEN {icResult[j] : j \in 1..(FirstIdx(icResult, Fallback) - 1)}
              = {Earlier[j] : j \in 1..(FirstIdx(Earlier, Fallback) - 1)}
       ELSE icResult[Len(icResult)] = Fallback

\* C4 (as stated): for every call, an explicit null or empty fallback
\* included, the returned list has no duplicates and contains the fallback
\* path, last unless it equals an earlier candidate.
C4_Original ==
    icPc = "done" => NoDup(icResult) /\ FallbackPlaced

\* C4 (amended): the returned list has no duplicates; when the fallback is a
\* non-empty string the list contains it, last unless it equals an earlier
\* candidate, whose position then stands; a null or empty fallback is dropped
\* and the list holds the other candidates only.
C4_NoDupFallback ==
    icPc = "done" =>
        /\ NoDup(icResult)
        /\ ~Falsy(Fallback) => FallbackPlaced
        /\ Falsy(Fallback) =>
              /\ Fallback \notin Range(icResult)
              /\ Range(icResult) = Range(Earlier)

C4_Witness ==
    /\ icPc = "done"
    /\ ~Falsy(Fallback)
    /\ Fallback \in Range(Earlier)
    /\ icResult[Len(icResult)] # Fallback
    /\ Len(icResult) < Len(Earlier)

\* ========================================================== parseInterests
\* the characters of /[,;|\n]/
Delims == {",", ";", "|", "\n"}

\* the white space String.prototype.trim removes
White == {" ", "\t", "\n"}

\* String.prototype.toLowerCase on one character
LowerChar(c) == IF c = "A" THEN "a" ELSE IF c = "B" THEN "b" ELSE c

ToLowerCase(s) == [i \in 1..Len(s) |-> LowerChar(s[i])]

\* String.prototype.split(/[,;|\n]/), cur being the piece under construction
RECURSIVE SplitAcc(_, _)
SplitAcc(s, cur) ==
    IF s = <<>> THEN <<cur>>
    ELSE IF Head(s) \in Delims THEN <<cur>> \o SplitAcc(Tail(s), <<>>)
    ELSE SplitAcc(Tail(s), Append(cur, Head(s)))

Split(s) == SplitAcc(s, <<>>)

RECURSIVE TrimStart(_)
TrimStart(s) ==
    IF s # <<>> /\ Head(s) \in White THEN TrimStart(Tail(s)) ELSE s

RECURSIVE TrimEnd(_)
TrimEnd(s) ==
    IF s # <<>> /\ s[Len(s)] \in White THEN TrimEnd(SubSeq(s, 1, Len(s) - 1)) ELSE s

\* String.prototype.trim
Trim(s) == TrimEnd(TrimStart(s))

\* filter(Boolean) on an array of strings
FilterNonEmpty(items) == SelectSeq(items, LAMBDA x : x # <<>>)

\* the duplicate filter with key = item (no toLowerCase)
RECURSIVE FilterSeen_CaseSensitive(_, _)
FilterSeen_CaseSensitive(items, seen) ==
    IF items = <<>> THEN <<>>
    ELSE LET key == Head(items)
         IN  IF key \in seen THEN FilterSeen_CaseSensitive(Tail(items), seen)
             ELSE <<Head(items)>> \o FilterSeen_CaseSensitive(Tail(items), seen \cup {key})

\* items.filter(item => ...) with the set seen of lower-cased keys
RECURSIVE FilterSeen(_, _)
FilterSeen(items, seen) ==
    IF items = <<>> THEN <<>>
    ELSE LET key == ToLowerCase(Head(items))
         IN  IF key \in seen THEN FilterSeen(Tail(items), seen)
             ELSE <<Head(items)>> \o FilterSeen(Tail(items), seen \cup {key})

ParseInterests(v) ==
    IF v.kind = "null" \/ (v.kind = "string" /\ v.str = <<>>) THEN <<>>
    ELSE LET items ==
                 IF v.kind = "array"
                 THEN FilterNonEmpty([i \in 1..Len(v.arr) |-> Trim(v.arr[i])])
                 ELSE LET parts == Split(v.str)
                      IN  FilterNonEmpty([i \in 1..Len(parts) |-> Trim(parts[i])])
         IN  FilterSeen(items, {})

Alphabet == {"a", "A", "b", " ", ",", ";", "|"}
ItemPool == {<<>>, <<" ">>, <<"a">>, <<"A">>, <<"b">>, <<" ", "a">>,
             <<"A", " ">>, <<"a", ",", "b">>, <<"a", " ", "A">>}

NullValue == [kind |-> "null", str |-> <<>>, arr |-> <<>>]
StringValue(t) == [kind |-> "string", str |-> t, arr |-> <<>>]
ArrayValue(a) == [kind |-> "array", str |-> <<>>, arr |-> a]

InitInterest ==
    /\ value \in {NullValue}
                 \cup {StringValue(t) : t \in SeqsUpTo(Alphabet, MaxChars)}
                 \cup {ArrayValue(a) : a \in SeqsUpTo(ItemPool, MaxItems)}
    /\ piResult = <<>>
    /\ piPc = "idle"
    /\ ProbeOff /\ CandOff /\ FetchOff /\ PartialOff /\ RenderOff

ParseInterestsCall ==
    /\ piPc = "idle"
    /\ piPc' = "done"
    /\ piResult' = ParseInterests(value)
    /\ UNCHANGED <<value, probeVars, candVars, fetchVars, partialVars, renderVars>>

NextInterest == ParseInterestsCall

SpecInterest == InitInterest /\ [][NextInterest]_vars

\* the k-th smallest element of a set of numbers
NthSmallest(S, k) == CHOOSE x \in S : Cardinality({y \in S : y < x}) = k - 1

\* the pieces of a string between its delimiters, by position
Pieces(s) ==
    LET cuts == {0, Len(s) + 1} \cup {i \in 1..Len(s) : s[i] \in Delims}
    IN  [j \in 1..(Cardinality(cuts) - 1) |->
            SubSeq(s, NthSmallest(cuts, j) + 1, NthSmallest(cuts, j + 1) - 1)]

\* a string without its leading and trailing white space, by position
Trimmed(s) ==
    LET ns == {i \in 1..Len(s) : s[i] \notin White}
    IN  IF ns = {} THEN <<>>
        ELSE SubSeq(s, NthSmallest(ns, 1), NthSmallest(ns, Cardinality(ns)))

\* the trimmed non-empty entries of the argument, in order
Entries ==
    LET raw == IF value.kind = "array" THEN value.arr
               ELSE IF value.kind = "string" THEN Pieces(value.str)
               ELSE <<>>
    IN  SelectSeq([i \in 1..Len(raw) |-> Trimmed(raw[i])], LAMBDA x : x # <<>>)

SameIgnoringCase(x, y) ==
    /\ Len(x) = Len(y)
    /\ \A i \in 1..Len(x) : LowerChar(x[i]) = LowerChar(y[i])

\* the entries that equal no earlier entry ignoring case, in order
FirstSeen(E) ==
    LET first == {i \in 1..Len(E) :
                     \A m \in 1..(i - 1) : ~SameIgnoringCase(E[m], E[i])}
    IN  [j \in 1..Cardinality(first) |-> E[NthSmallest(first, j)]]

\* C8: parseInterests returns the trimmed non-empty entries, each kept once
\* ignoring case in its first-seen casing and first-occurrence order; a
\* null/undefined argument gives the empty sequence; no two entries of the
\* result are equal ignoring case.
C8_ParseInterests ==
    piPc = "done" =>
        /\ piResult = FirstSeen(Entries)
        /\ \A j, k \in 1..Len(piResult) :
              SameIgnoringCase(piResult[j], piResult[k]) => j = k
        /\ value.kind = "null" => piResult = <<>>

C8_Witness ==
    /\ piPc = "done"
    /\ value.kind = "string"
    /\ Len(piResult) >= 2
    /\ Len(Entries) > Len(piResult)
    /\ \E i \in 1..Len(Entries) : Entries[i] \notin Range(piResult)

\* =============================================================== fetchYAML
\* the object literal {}
EmptyMap == "{}"

\* what fetch(...) can resolve with: response.ok and response.statusText
ResponsePool == {[ok |-> TRUE, statusText |-> "OK"],
                 [ok |-> TRUE, statusText |-> ""],
                 [ok |-> FALSE, statusText |-> "Not Found"],
                 [ok |-> FALSE, statusText |-> "Internal Server Error"],
                 [ok |-> FALSE, statusText |-> ""]}

\* the documents response.text() can deliver
YamlTexts == {"", "~", "null", "0", "false", "''", "{}", "a: 1", "- x", "{bad", "a: [1"}

\* jsyaml.load(text): throws on malformed input, else the parsed document
YamlLoad(text) ==
    [throws |-> text \in {"{bad", "a: [1"},
     value  |-> CASE text = "" -> Undefined
                  [] text \in {"~", "null"} -> Null
                  [] text = "0" -> Zero
                  [] text = "false" -> False
                  [] text = "''" -> ""
                  [] text = "{}" -> EmptyMap
                  [] text = "a: 1" -> "{a: 1}"
                  [] text = "- x" -> "[x]"
                  [] OTHER -> Undefined]

NoResponse == [ok |-> FALSE, statusText |-> Undefined]

PathPool == {"/staff/roster.yml", "/postdocs/roster.yml", "/students/roster.yml",
             "missing.yml", ""}

InitFetch ==
    /\ path \in PathPool
    /\ fyPc = "idle"
    /\ fyPromise = PendingPromise
    /\ fyResponse = NoResponse
    /\ fyText = Undefined
    /\ fyLog = <<>>
    /\ fyFailure = "none"
    /\ ProbeOff /\ CandOff /\ InterestOff /\ PartialOff /\ RenderOff

\* a catch block that logs and rethrows
FetchYAMLCatch_Rethrow(error) ==
    /\ fyLog' = Append(fyLog, error)
    /\ fyPromise' = [state |-> "rejected", value |-> error]
    /\ fyPc' = "done"

\* catch (error) { console.error(...); return {}; }
FetchYAMLCatch(error) ==
    /\ fyLog' = Append(fyLog, error)
    /\ fyPromise' = Resolve(fyPromise, EmptyMap)
    /\ fyPc' = "done"

\* the call, up to the first await
FetchYAML ==
    /\ fyPc = "idle"
    /\ fyPc' = "awaitFetch"
    /\ UNCHANGED <<path, fyPromise, fyResponse, fyText, fyLog, fyFailure>>
    /\ UNCHANGED <<probeVars, candVars, interestVars, partialVars, renderVars>>

\* await fetch(path) rejects: transport failure
FyFetchRejects ==
    /\ fyPc = "awaitFetch"
    /\ fyFailure' = "transport"
    /\ FetchYAMLCatch("TypeError: Failed to fetch")
    /\ UNCHANGED <<path, fyResponse, fyText>>
    /\ UNCHANGED <<probeVars, candVars, interestVars, partialVars, renderVars>>

\* await fetch(path) resolves: the response.ok test
FyFetchResponds ==
    /\ fyPc = "awaitFetch"
    /\ \E response \in ResponsePool :
          /\ fyResponse' = response
          /\ IF ~response.ok
             THEN /\ fyFailure' = "status"
                  /\ FetchYAMLCatch("Failed to fetch " \o Str(path) \o ": "
                                     \o response.statusText)
             ELSE /\ fyPc' = "awaitText"
                  /\ UNCHANGED <<fyPromise, fyLog, fyFailure>>
    /\ UNCHANGED <<path, fyText>>
    /\ UNCHANGED <<probeVars, candVars, interestVars, partialVars, renderVars>>

\* await response.text() rejects: the body cannot be read
FyTextRejects ==
    /\ fyPc = "awaitText"
    /\ fyFailure' = "body"
    /\ FetchYAMLCatch("TypeError: body stream error")
    /\ UNCHANGED <<path, fyResponse, fyText>>
    /\ UNCHANGED <<probeVars, candVars, interestVars, partialVars, renderVars>>

\* await response.text() resolves: return jsyaml.load(text) || {}
FyTextArrives ==
    /\ fyPc = "awaitText"
    /\ \E text \in YamlTexts :
          /\ fyText' = text
          /\ IF YamlLoad(text).throws
             THEN /\ fyFailure' = "parse"
                  /\ FetchYAMLCatch("YAMLException")
             ELSE /\ fyPromise' = Resolve(fyPromise, Or(YamlLoad(text).value, EmptyMap))
                  /\ fyPc' = "done"
                  /\ UNCHANGED <<fyLog, fyFailure>>
    /\ UNCHANGED <<path, fyResponse>>
    /\ UNCHANGED <<probeVars, candVars, interestVars, partialVars, renderVars>>

NextFetch ==
    FetchYAML \/ FyFetchRejects \/ FyFetchResponds \/ FyTextRejects \/ FyTextArrives

SpecFetch == InitFetch /\ [][NextFetch]_vars

\* C6: the promise of fetchYAML is never rejected; once the function is
\* done it is fulfilled, with the empty mapping after a transport failure, a
\* non-OK response, an unreadable body or a parse failure and after an empty
\* or null document, and with the parsed document otherwise.
C6_FetchYAMLResolves ==
    /\ fyPromise.state \in {"pending", "fulfilled"}
    /\ fyPc = "done" =>
          /\ fyPromise.state = "fulfilled"
          /\ fyFailure # "none" => fyPromise.value = EmptyMap
          /\ (fyFailure = "none" /\ fyText \in {"", "~", "null"}) =>
                fyPromise.value = EmptyMap
          /\ (fyFailure = "none" /\ fyText = "a: 1") =>
                fyPromise.value = "{a: 1}"

C6_Witness ==
    /\ fyPc = "done"
    /\ fyFailure = "transport"
    /\ fyPromise = [state |-> "fulfilled", value |-> EmptyMap]

\* ============================================================= loadPartial
\* a query returning the last matching element
QuerySelector_Last(d) ==
    IF \E i \in 1..Len(d) : d[i].match
    THEN CHOOSE i \in 1..Len(d) : d[i].match /\ \A j \in (i + 1)..Len(d) : ~d[j].match
    ELSE 0

\* document.querySelector(selector): the first matching element, 0 for null
QuerySelector(d) ==
    IF \E i \in 1..Len(d) : d[i].match
    THEN CHOOSE i \in 1..Len(d) : d[i].match /\ \A j \in 1..(i - 1) : ~d[j].match
    ELSE 0

ElementPool == [match : BOOLEAN, innerHTML : {"", "<p>old</p>"}]
HtmlPool == {"", "<nav>new</nav>"}
UrlArgPool == {"/partials/header.html", "/partials/footer.html"}

InitPartial ==
    /\ url \in UrlArgPool
    /\ dom \in SeqsUpTo(ElementPool, MaxElems)
    /\ dom0 = dom
    /\ lpPc = "idle"
    /\ lpPromise = PendingPromise
    /\ lpHtml = Undefined
    /\ lpLog = <<>>
    /\ lpFailure = "none"
    /\ ProbeOff /\ CandOff /\ InterestOff /\ FetchOff /\ RenderOff

\* catch (error) { console.error(...); }
LoadPartialCatch(error) ==
    /\ lpLog' = Append(lpLog, error)
    /\ lpPromise' = Resolve(lpPromise, Undefined)
    /\ lpPc' = "done"

\* the call, up to the first await
LoadPartial ==
    /\ lpPc = "idle"
    /\ lpPc' = "awaitFetch"
    /\ UNCHANGED <<url, dom, dom0, lpPromise, lpHtml, lpLog, lpFailure>>
    /\ UNCHANGED <<probeVars, candVars, interestVars, fetchVars, renderVars>>

\* await fetch(url) rejects
LpFetchRejects ==
    /\ lpPc = "awaitFetch"
    /\ lpFailure' = "transport"
    /\ LoadPartialCatch("TypeError: Failed to fetch")
    /\ UNCHANGED <<url, dom, dom0, lpHtml>>
    /\ UNCHANGED <<probeVars, candVars, interestVars, fetchVars, renderVars>>

\* await fetch(url) resolves: the response.ok test
LpFetchResponds ==
    /\ lpPc = "awaitFetch"
    /\ \E response \in ResponsePool :
          IF ~response.ok
          THEN /\ lpFailure' = "status"
               /\ LoadPartialCatch("Failed to load " \o Str(url) \o ": "
                                    \o response.statusText)
          ELSE /\ lpPc' = "awaitText"
               /\ UNCHANGED <<lpPromise, lpLog, lpFailure>>
    /\ UNCHANGED <<url, dom, dom0, lpHtml>>
    /\ UNCHANGED <<probeVars, candVars, interestVars, fetchVars, renderVars>>

\* await response.text() rejects
LpTextRejects ==
    /\ lpPc = "awaitText"
    /\ lpFailure' = "body"
    /\ LoadPartialCatch("TypeError: body stream error")
    /\ UNCHANGED <<url, dom, dom0, lpHtml>>
    /\ UNCHANGED <<probeVars, candVars, interestVars, fetchVars, renderVars>>

\* await response.text() resolves: querySelector, element.innerHTML = html
LpTextArrives ==
    /\ lpPc = "awaitText"
    /\ \E html \in HtmlPool :
          /\ lpHtml' = html
          /\ LET element == QuerySelector(dom)
             IN  dom' = IF element # 0
                        THEN [dom EXCEPT ![element].innerHTML = html]
                        ELSE dom
    /\ lpPromise' = Resolve(lpPromise, Undefined)
    /\ lpPc' = "done"
    /\ UNCHANGED <<url, dom0, lpLog, lpFailure>>
    /\ UNCHANGED <<probeVars, candVars, interestVars, fetchVars, renderVars>>

NextPartial ==
    LoadPartial \/ LpFetchRejects \/ LpFetchResponds \/ LpTextRejects \/ LpTextArrives

SpecPartial == InitPartial /\ [][NextPartial]_vars

Matching(d) == {i \in 1..Len(d) : d[i].match}

\* C7: after a failed fetch (transport, non-OK response, unreadable body) the
\* document is as it was at the call; no element changes before the HTML
\* text has been obtained; the only element that may change is the first one
\* matching the selector, and it then holds the fetched text.
C7_LoadPartialFrame ==
    /\ lpFailure # "none" => dom = dom0
    /\ lpHtml = Undefined => dom = dom0
    /\ Len(dom) = Len(dom0)
    /\ \A i \in 1..Len(dom) :
          dom[i] # dom0[i] =>
              /\ i \in Matching(dom0)
              /\ \A j \in Matching(dom0) : i <= j
              /\ dom[i] = [dom0[i] EXCEPT !.innerHTML = lpHtml]
    /\ (lpPc = "done" /\ lpFailure = "none" /\ Matching(dom0) # {}) =>
          \E i \in Matching(dom0) : dom[i].innerHTML = lpHtml

C7_Witness ==
    /\ lpPc = "done"
    /\ Cardinality(Matching(dom0)) >= 2
    /\ \E i, j \in Matching(dom0) :
          i < j /\ dom[i] # dom0[i] /\ dom[j] = dom0[j] /\ dom[j].innerHTML # lpHtml

\* ====================== renderContactInfo, syncStrapHeight, showProfileNotFound
\* createExternalLink(href, text)
CreateExternalLink(href, text) ==
    [href |-> href, target |-> "_blank", rel |-> "noopener noreferrer",
     textContent |-> text, ariaLabel |-> Str(text) \o " (opens in new tab)"]

\* an li holding a link, and an li holding text only
LinkItem(anchor) == [anchor |-> <<anchor>>, textContent |-> anchor.textContent]
TextItem(text) == [anchor |-> <<>>, textContent |-> text]

\* the children appended by the five if-blocks, for a non-null person
ContactItems(p) ==
    LET lanlUrl == Or(p.lanl, p.lanl_profile)
    IN  (IF ~Falsy(p.email)
         THEN <<LinkItem(CreateExternalLink("mailto:" \o Str(p.email), p.email))>>
         ELSE <<>>)
        \o (IF ~Falsy(p.phone) THEN <<TextItem(p.phone)>> ELSE <<>>)
        \o (IF ~Falsy(lanlUrl)
            THEN <<LinkItem(CreateExternalLink(lanlUrl, "LANL Profile"))>> ELSE <<>>)
        \o (IF ~Falsy(p.scholar)
            THEN <<LinkItem(CreateExternalLink(p.scholar, "Google Scholar"))>> ELSE <<>>)
        \o (IF ~Falsy(p.ads)
            THEN <<LinkItem(CreateExternalLink(p.ads, "NASA ADS"))>> ELSE <<>>)

NullPerson ==
    [exists |-> FALSE, email |-> Undefined, phone |-> Undefined, lanl |-> Undefined,
     lanl_profile |-> Undefined, scholar |-> Undefined, ads |-> Undefined]

ContactPool ==
    {NullPerson} \cup
    [exists : {TRUE}, email : {Undefined, "jd@lanl.gov"}, phone : {Undefined, "555-0100"},
     lanl : {Undefined, "https://lanl.gov/jd"},
     lanl_profile : {Undefined, "https://lanl.gov/old/jd"},
     scholar : {Undefined, "https://scholar/jd"}, ads : {Undefined, "https://ads/jd"}]

ListPool == {[exists |-> FALSE, children |-> <<>>],
             [exists |-> TRUE, children |-> <<>>],
             [exists |-> TRUE, children |-> <<TextItem("old")>>]}

InitRender ==
    /\ rcPerson \in ContactPool
    /\ listElement \in ListPool
    /\ topBar \in [exists : BOOLEAN, offsetHeight : {"48"}]
    /\ strapBg \in [exists : BOOLEAN, height : {""}]
    /\ container \in [exists : BOOLEAN, innerHTML : {"<h1>Profile</h1>"}]
    /\ thrown = Undefined
    /\ ProbeOff /\ CandOff /\ InterestOff /\ FetchOff /\ PartialOff

\* renderContactInfo(person, listElement): listElement.innerHTML = '' and
\* person.email are property accesses, a TypeError on null
RenderContactInfo ==
    /\ thrown = Undefined
    /\ IF ~listElement.exists
       THEN /\ thrown' = "TypeError"
            /\ UNCHANGED listElement
       ELSE IF ~rcPerson.exists
       THEN /\ listElement' = [listElement EXCEPT !.children = <<>>]
            /\ thrown' = "TypeError"
       ELSE /\ listElement' = [listElement EXCEPT !.children = ContactItems(rcPerson)]
            /\ UNCHANGED thrown
    /\ UNCHANGED <<rcPerson, topBar, strapBg, container>>
    /\ UNCHANGED <<probeVars, candVars, interestVars, fetchVars, partialVars>>

SyncStrapHeight ==
    /\ thrown = Undefined
    /\ strapBg' = IF topBar.exists /\ strapBg.exists
                  THEN [strapBg EXCEPT !.height = topBar.offsetHeight \o "px"]
                  ELSE strapBg
    /\ UNCHANGED <<rcPerson, listElement, topBar, container, thrown>>
    /\ UNCHANGED <<probeVars, candVars, interestVars, fetchVars, partialVars>>

ShowProfileNotFound ==
    /\ thrown = Undefined
    /\ \E backUrl \in {"/staff/", Undefined}, backTextArg \in {Undefined, "Back to staff"} :
          LET backText == DefaultParam(backTextArg, "Go Back")
          IN  container' =
                IF container.exists
                THEN [container EXCEPT !.innerHTML =
                        "<h2>Profile Not Found</h2>"
                        \o "<p>The requested profile could not be found.</p>"
                        \o "<p><a href=\"" \o Str(backUrl) \o "\">&larr; "
                        \o Str(backText) \o "</a></p>"]
                ELSE container
    /\ UNCHANGED <<rcPerson, listElement, topBar, strapBg, thrown>>
    /\ UNCHANGED <<probeVars, candVars, interestVars, fetchVars, partialVars>>

NextRender == RenderContactInfo \/ SyncStrapHeight \/ ShowProfileNotFound

SpecRender == InitRender /\ [][NextRender]_vars

\* C5: no renderer throws to its caller: called with a missing DOM target or
\* a null person record it returns without an exception.
C5_NeverThrows ==
    thrown = Undefined

====
